---- MODULE Spec2Model ----
(***************************************************************************)
(* Student Group Management System (src/tut_01/app.py): the roll-number    *)
(* department extraction, the two grouping strategies                      *)
(* (BalancedDistributionStrategy, DepartmentClusteringStrategy) and the    *)
(* GroupStatisticsGenerator, as a state machine.                           *)
(*                                                                         *)
(* Strings are sequences of one-character strings.  A spreadsheet cell is  *)
(* a record [isna, text]: isna is what pd.isna() answers for it.           *)
(***************************************************************************)
EXTENDS Integers, Sequences, FiniteSets, TLC

VARIABLES
    raw_data,            \* the uploaded "Roll" column, one cell per row
    num_groups,          \* the requested number of groups
    student_data,        \* the processed frame: one row per student
    pc,                  \* position in the program
    strategy,            \* "none", "balanced" or "cluster"
    department_queues,   \* BalancedDistributionStrategy.department_queues
    ordered_departments, \* key order of department_queues
    group_targets,       \* create_groups: group_targets
    groups,              \* create_groups: groups
    group_idx,           \* create_groups: group_idx (1-based here)
    dept_pos,            \* position of the running "for dept" loop (1-based)
    assigned_in_round,   \* create_groups: assigned_in_round
    target_group_size,   \* clustering: target_group_size
    sorted_departments,  \* clustering: sorted_departments
    dept_students,       \* clustering: dept_students
    students_assigned,   \* clustering: students_assigned
    remaining_blocks,    \* clustering: remaining_blocks
    remaining_queue,     \* clustering: remaining_queue
    current_group,       \* clustering: current_group
    available_space,     \* clustering: available_space
    stats,               \* the statistics table, once generated
    error                \* the exception that ended the run, or "none"

vars == << raw_data, num_groups, student_data, pc, strategy, department_queues,
           ordered_departments, group_targets, groups, group_idx, dept_pos,
           assigned_in_round, target_group_size, sorted_departments,
           dept_students, students_assigned, remaining_blocks, remaining_queue,
           current_group, available_space, stats, error >>

----------------------------------------------------------------------------
(* Bounds of the model *)

\* Longest roster over three departments.
MaxLen == 5

\* Longest roster over four departments.
MaxLenWide == 4

\* Largest requested group count.
MaxGroups == 3

\* Longest identifier of the extraction runs.

MaxIdLen == 4

----------------------------------------------------------------------------
(* Strings *)

UpperCase ==
    { "A", "B", "C", "D", "E", "F", "G", "H", "I", "J", "K", "L", "M",
      "N", "O", "P", "Q", "R", "S", "T", "U", "V", "W", "X", "Y", "Z" }

\* The characters identifiers are drawn from: two upper-case letters, a
\* lower-case letter and a digit.
Alphabet == { "A", "I", "a", "1" }

\* Code points of the characters that can occur in a department code.
Ord(c) ==
    CASE c = "A" -> 65 [] c = "B" -> 66 [] c = "C" -> 67 [] c = "D" -> 68
      [] c = "E" -> 69 [] c = "F" -> 70 [] c = "G" -> 71 [] c = "H" -> 72
      [] c = "I" -> 73 [] c = "J" -> 74 [] c = "K" -> 75 [] c = "L" -> 76
      [] c = "M" -> 77 [] c = "N" -> 78 [] c = "O" -> 79 [] c = "P" -> 80
      [] c = "Q" -> 81 [] c = "R" -> 82 [] c = "S" -> 83 [] c = "T" -> 84
      [] c = "U" -> 85 [] c = "V" -> 86 [] c = "W" -> 87 [] c = "X" -> 88
      [] c = "Y" -> 89 [] c = "Z" -> 90

UNKNOWN == << "U", "N", "K", "N", "O", "W", "N" >>

branch_priority ==
    << << "A", "I" >>, << "C", "B" >>, << "C", "E" >>, << "C", "H" >>,
       << "C", "S" >>, << "C", "T" >>, << "E", "C" >>, << "M", "C" >>,
       << "M", "M" >>, << "M", "T" >> >>

Range(s) == { s[i] : i \in 1..Len(s) }

StringsUpTo(n) == UNION { [1..k -> Alphabet] : k \in 0..n }

NA == [isna |-> TRUE, text |-> << >>]

Cell(t) == [isna |-> FALSE, text |-> t]

\* The cells the rosters of the allocation runs are drawn from: a department
\* of the priority catalog, one outside it, one unknown ...
NarrowPool ==
    { Cell(<< "1", "A", "I" >>), Cell(<< "X", "Y", "1" >>), Cell(<< "1", "2" >>) }

\* ... and a second department of the catalog.
RollPool == NarrowPool \cup { Cell(<< "1", "C", "S" >>) }

Rosters ==
    UNION { [1..k -> NarrowPool] : k \in 0..MaxLen }
    \cup UNION { [1..k -> RollPool] : k \in 0..MaxLenWide }

----------------------------------------------------------------------------
(* BranchExtractor.get_department_code *)

\* re.search(r"[A-Z]{2}", s): the scan from position i on; 0 when no match.
RECURSIVE SearchFrom(_, _)
SearchFrom(s, i) ==
    IF i + 1 > Len(s) THEN 0
    ELSE IF s[i] \in UpperCase /\ s[i + 1] \in UpperCase THEN i
    ELSE SearchFrom(s, i + 1)

\* Faulty variant: re.match in place of re.search, a pair only at the start.
get_department_code_first(roll_num) ==
    IF roll_num.isna THEN UNKNOWN
    ELSE IF Len(roll_num.text) >= 2 /\ roll_num.text[1] \in UpperCase
            /\ roll_num.text[2] \in UpperCase
         THEN SubSeq(roll_num.text, 1, 2)
         ELSE UNKNOWN

get_department_code(roll_num) ==
    IF roll_num.isna THEN UNKNOWN
    ELSE LET m == SearchFrom(roll_num.text, 1)
         IN  IF m > 0 THEN SubSeq(roll_num.text, m, m + 1) ELSE UNKNOWN

\* process_student_data: the standardized frame with its Department column.
ProcessedData(raw) ==
    [i \in 1..Len(raw) |->
        [row |-> i, Roll_Number |-> raw[i],
         Department |-> get_department_code(raw[i])]]

----------------------------------------------------------------------------
(* Frame and list helpers *)

\* Series.unique(): the distinct values in order of first appearance.
RECURSIVE Unique(_)
Unique(s) ==
    IF s = << >> THEN << >>
    ELSE LET init == Unique(SubSeq(s, 1, Len(s) - 1))
             x == s[Len(s)]
         IN  IF x \in Range(init) THEN init ELSE Append(init, x)

DepartmentColumn(data) == [i \in 1..Len(data) |-> data[i].Department]

\* StudentRecord(...) built from a row of the frame.
StudentRecord(r) ==
    [row |-> r.row, roll_number |-> r.Roll_Number, department |-> r.Department]

InDept(r, dept) == r.Department = dept

\* Faulty variant: the records of a department in reverse row order.
RECURSIVE RecordsOf_reversed(_, _)
RecordsOf_reversed(data, dept) ==
    IF data = << >> THEN << >>
    ELSE LET rest == RecordsOf_reversed(SubSeq(data, 1, Len(data) - 1), dept)
             r == data[Len(data)]
         IN  IF r.Department = dept
             THEN << [row |-> r.row, roll_number |-> r.Roll_Number,
                      department |-> r.Department] >> \o rest
             ELSE rest

\* data[data["Department"] == dept], as StudentRecords in row order.
RECURSIVE RecordsOf(_, _)
RecordsOf(data, dept) ==
    IF data = << >> THEN << >>
    ELSE LET rest == RecordsOf(SubSeq(data, 1, Len(data) - 1), dept)
             r == data[Len(data)]
         IN  IF InDept(r, dept) THEN Append(rest, StudentRecord(r)) ELSE rest

\* Python's s[a:b] for 0-based a, b of either sign.
PyIndex(s, i) ==
    IF i < 0 THEN (IF i + Len(s) < 0 THEN 0 ELSE i + Len(s))
    ELSE IF i > Len(s) THEN Len(s) ELSE i

PySlice(s, a, b) == SubSeq(s, PyIndex(s, a) + 1, PyIndex(s, b))

\* Python's floor division and modulo for a divisor of either sign (not 0).
FloorDiv(a, b) == IF b > 0 THEN a \div b ELSE (0 - a) \div (0 - b)

PyMod(a, b) == a - b * FloorDiv(a, b)

\* math.ceil(a / b) for a >= 0 and b of either sign (not 0).
Ceil(a, b) == 0 - FloorDiv(0 - a, b)

----------------------------------------------------------------------------
(* Initial states *)

Idle ==
    /\ student_data = << >>
    /\ pc = "upload"
    /\ strategy = "none"
    /\ department_queues = << >>
    /\ ordered_departments = << >>
    /\ group_targets = << >>
    /\ groups = << >>
    /\ group_idx = 0
    /\ dept_pos = 0
    /\ assigned_in_round = FALSE
    /\ target_group_size = 0
    /\ sorted_departments = << >>
    /\ dept_students = << >>
    /\ students_assigned = 0
    /\ remaining_blocks = << >>
    /\ remaining_queue = << >>
    /\ current_group = << >>
    /\ available_space = 0
    /\ stats = << >>
    /\ error = "none"

\* The strategies take any integer as num_groups; main_application's
\* number_input offers 2..50, the classes themselves restrict nothing.
Init ==
    /\ raw_data \in Rosters
    /\ num_groups \in (-1)..MaxGroups
    /\ Idle

\* One-row rosters over every identifier of the alphabet (and the null cell).
InitExtract ==
    /\ raw_data \in { << c >> : c \in { Cell(t) : t \in StringsUpTo(MaxIdLen) } \cup { NA } }
    /\ num_groups = 1
    /\ Idle

----------------------------------------------------------------------------
(* process_student_data *)

ProcessStudentData ==
    /\ pc = "upload"
    /\ student_data' = ProcessedData(raw_data)
    /\ pc' = "ready"
    /\ UNCHANGED << raw_data, num_groups, strategy, department_queues,
                    ordered_departments, group_targets, groups, group_idx,
                    dept_pos, assigned_in_round, target_group_size,
                    sorted_departments, dept_students, students_assigned,
                    remaining_blocks, remaining_queue, current_group,
                    available_space, stats, error >>

----------------------------------------------------------------------------
(* BalancedDistributionStrategy *)

InPriority(dept) == dept \in Range(branch_priority)

\* Faulty variant: the departments in order of first appearance only.
OrderedDepartments_firstseen(data) == Unique(DepartmentColumn(data))

\* _initialize_department_queues: the departments of the catalog that are
\* present, in catalog order, then the others in order of first appearance.
OrderedDepartments(data) ==
    LET available_departments == Unique(DepartmentColumn(data))
    IN  SelectSeq(branch_priority, LAMBDA d : d \in Range(available_departments))
        \o SelectSeq(available_departments, LAMBDA d : ~InPriority(d))

InitializeDepartmentQueues(data) ==
    [dept \in Range(OrderedDepartments(data)) |-> RecordsOf(data, dept)]

\* Faulty variant: i <= extra_students in place of i < extra_students.
GroupTarget_inclusive(total_students, n, i) ==
    FloorDiv(total_students, n) + (IF i <= PyMod(total_students, n) THEN 1 ELSE 0)

\* group_targets[i] for the 0-based index i.
GroupTarget(total_students, n, i) ==
    FloorDiv(total_students, n) + (IF i < PyMod(total_students, n) THEN 1 ELSE 0)

GroupTargets(total_students, n) ==
    [g \in 1..n |-> GroupTarget(total_students, n, g - 1)]

\* Faulty variant: the front record is read and left in the queue.
PopLeft_keep(queue) == queue

\* queue.popleft(): the queue that is left.
PopLeft(queue) == Tail(queue)

BalancedUnchanged ==
    UNCHANGED << raw_data, num_groups, student_data, strategy,
                 target_group_size, sorted_departments, dept_students,
                 students_assigned, remaining_blocks, remaining_queue,
                 current_group, available_space, stats, error >>

\* BalancedDistributionStrategy(student_data, num_groups)
BalancedConstruct ==
    /\ pc = "ready"
    /\ strategy' = "balanced"
    /\ ordered_departments' = OrderedDepartments(student_data)
    /\ department_queues' = InitializeDepartmentQueues(student_data)
    /\ pc' = "bal_created"
    /\ UNCHANGED << raw_data, num_groups, student_data, group_targets, groups,
                    group_idx, dept_pos, assigned_in_round, target_group_size,
                    sorted_departments, dept_students, students_assigned,
                    remaining_blocks, remaining_queue, current_group,
                    available_space, stats, error >>

\* create_groups, up to the distribution loop.  The first statement that
\* uses num_groups is the floor division.
BalancedCreateGroups ==
    /\ pc = "bal_created"
    /\ IF num_groups = 0
       THEN /\ error' = "ZeroDivisionError"
            /\ pc' = "error"
            /\ UNCHANGED << group_targets, groups, group_idx >>
       ELSE /\ group_targets' = GroupTargets(Len(student_data), num_groups)
            /\ groups' = [g \in 1..num_groups |-> << >>]
            /\ group_idx' = 1
            /\ pc' = "bal_group"
            /\ error' = error
    /\ UNCHANGED << raw_data, num_groups, student_data, strategy,
                    department_queues, ordered_departments, dept_pos,
                    assigned_in_round, target_group_size, sorted_departments,
                    dept_students, students_assigned, remaining_blocks,
                    remaining_queue, current_group, available_space, stats >>

\* for group_idx in range(self.num_groups)
BalancedNextGroup ==
    /\ pc = "bal_group"
    /\ pc' = IF group_idx > num_groups THEN "done" ELSE "bal_while"
    /\ UNCHANGED << department_queues, ordered_departments, group_targets,
                    groups, group_idx, dept_pos, assigned_in_round >>
    /\ BalancedUnchanged

\* while len(groups[group_idx]) < target_size
BalancedWhile ==
    /\ pc = "bal_while"
    /\ IF Len(groups[group_idx]) < group_targets[group_idx]
       THEN /\ assigned_in_round' = FALSE
            /\ dept_pos' = 1
            /\ pc' = "bal_for"
            /\ group_idx' = group_idx
       ELSE /\ group_idx' = group_idx + 1
            /\ pc' = "bal_group"
            /\ UNCHANGED << assigned_in_round, dept_pos >>
    /\ UNCHANGED << department_queues, ordered_departments, group_targets,
                    groups >>
    /\ BalancedUnchanged

\* The statement after the department loop: if not assigned_in_round: break
AfterRound ==
    IF ~assigned_in_round
    THEN /\ group_idx' = group_idx + 1
         /\ pc' = "bal_group"
    ELSE /\ group_idx' = group_idx
         /\ pc' = "bal_while"

\* The department loop has run through every queue.
BalancedRoundEnd ==
    /\ pc = "bal_for"
    /\ dept_pos > Len(ordered_departments)
    /\ AfterRound
    /\ UNCHANGED << department_queues, ordered_departments, group_targets,
                    groups, dept_pos, assigned_in_round >>
    /\ BalancedUnchanged

\* if len(groups[group_idx]) >= target_size: break
BalancedBreakFull ==
    /\ pc = "bal_for"
    /\ dept_pos <= Len(ordered_departments)
    /\ Len(groups[group_idx]) >= group_targets[group_idx]
    /\ AfterRound
    /\ UNCHANGED << department_queues, ordered_departments, group_targets,
                    groups, dept_pos, assigned_in_round >>
    /\ BalancedUnchanged

\* if queue: student = queue.popleft(); groups[group_idx].append(student)
BalancedPop ==
    /\ pc = "bal_for"
    /\ dept_pos <= Len(ordered_departments)
    /\ Len(groups[group_idx]) < group_targets[group_idx]
    /\ LET dept == ordered_departments[dept_pos]
           queue == department_queues[dept]
       IN  /\ queue # << >>
           /\ department_queues' = [department_queues EXCEPT ![dept] = PopLeft(queue)]
           /\ groups' = [groups EXCEPT ![group_idx] = Append(@, Head(queue))]
    /\ assigned_in_round' = TRUE
    /\ dept_pos' = dept_pos + 1
    /\ UNCHANGED << ordered_departments, group_targets, group_idx, pc >>
    /\ BalancedUnchanged

\* An empty queue is passed over.
BalancedSkipEmpty ==
    /\ pc = "bal_for"
    /\ dept_pos <= Len(ordered_departments)
    /\ Len(groups[group_idx]) < group_targets[group_idx]
    /\ department_queues[ordered_departments[dept_pos]] = << >>
    /\ dept_pos' = dept_pos + 1
    /\ UNCHANGED << department_queues, ordered_departments, group_targets,
                    groups, group_idx, assigned_in_round, pc >>
    /\ BalancedUnchanged

----------------------------------------------------------------------------
(* DepartmentClusteringStrategy *)

DeptCount(data, dept) == Cardinality({ i \in 1..Len(data) : InDept(data[i], dept) })

\* value_counts().sort_values(ascending=False).index.tolist(): the departments
\* by descending count.  sort_values sorts with an unstable algorithm, so the
\* order among departments of equal count is any.
SortedDepartmentOrders(data) ==
    LET present == Range(DepartmentColumn(data))
        k == Cardinality(present)
    IN  { p \in [1..k -> present] :
            /\ \A i, j \in 1..k : i # j => p[i] # p[j]
            /\ \A i, j \in 1..k :
                 i < j => DeptCount(data, p[i]) >= DeptCount(data, p[j]) }

\* Faulty variant: the quotient rounded down.
TargetGroupSize_floor(total_students, n) == FloorDiv(total_students, n)

TargetGroupSize(total_students, n) == Ceil(total_students, n)

\* Faulty variant: students[:target_group_size], always from the front.
CarvedGroup_front(students, assigned, size) == PySlice(students, 0, size)

\* students[students_assigned:students_assigned + target_group_size]
CarvedGroup(students, assigned, size) == PySlice(students, assigned, assigned + size)

\* Faulty variant: append in place of appendleft.
PushFront_back(queue, block) == Append(queue, block)

\* remaining_queue.appendleft(remaining_portion)
PushFront(queue, block) == << block >> \o queue

\* list.sort(key=len, reverse=True): stable, so blocks of equal length keep
\* their order.
RECURSIVE SortBlocks(_)
SortBlocks(blocks) ==
    IF blocks = << >> THEN << >>
    ELSE LET init == SortBlocks(SubSeq(blocks, 1, Len(blocks) - 1))
             b == blocks[Len(blocks)]
         IN  SelectSeq(init, LAMBDA x : Len(x) >= Len(b))
             \o << b >>
             \o SelectSeq(init, LAMBDA x : Len(x) < Len(b))

\* Faulty variant: the whole block is taken, whatever space is left.
FittingPortion_whole(next_block, space) == next_block

\* next_block[:available_space] and next_block[available_space:]
FittingPortion(next_block, space) == PySlice(next_block, 0, space)

RemainingPortion(next_block, space) == PySlice(next_block, space, Len(next_block))

\* Faulty variant: no padding.
PadGroups_none(gs, n) == gs

\* while len(groups) < self.num_groups: groups.append([])
PadGroups(gs, n) == gs \o [i \in 1..(n - Len(gs)) |-> << >>]

ClusterUnchanged ==
    UNCHANGED << raw_data, num_groups, student_data, strategy,
                 department_queues, ordered_departments, group_targets,
                 group_idx, assigned_in_round, stats >>

\* DepartmentClusteringStrategy(student_data, num_groups)
ClusterConstruct ==
    /\ pc = "ready"
    /\ strategy' = "cluster"
    /\ pc' = "cl_created"
    /\ UNCHANGED << raw_data, num_groups, student_data, department_queues,
                    ordered_departments, group_targets, groups, group_idx,
                    dept_pos, assigned_in_round, target_group_size,
                    sorted_departments, dept_students, students_assigned,
                    remaining_blocks, remaining_queue, current_group,
                    available_space, stats, error >>

\* create_groups, up to Step 1.  The first statement that uses num_groups
\* is the division.
ClusterCreateGroups ==
    /\ pc = "cl_created"
    /\ IF num_groups = 0
       THEN /\ error' = "ZeroDivisionError"
            /\ pc' = "error"
            /\ UNCHANGED << target_group_size, sorted_departments,
                            dept_students, groups, remaining_blocks, dept_pos >>
       ELSE /\ target_group_size' = TargetGroupSize(Len(student_data), num_groups)
            /\ \E order \in SortedDepartmentOrders(student_data) :
                 /\ sorted_departments' = order
                 /\ dept_students' =
                      [dept \in Range(order) |-> RecordsOf(student_data, dept)]
            /\ groups' = << >>
            /\ remaining_blocks' = << >>
            /\ dept_pos' = 1
            /\ pc' = "cl_dept"
            /\ error' = error
    /\ UNCHANGED << students_assigned, remaining_queue, current_group,
                    available_space >>
    /\ ClusterUnchanged

\* for dept, students in dept_students.items()
ClusterNextDept ==
    /\ pc = "cl_dept"
    /\ dept_pos <= Len(sorted_departments)
    /\ students_assigned' = 0
    /\ pc' = "cl_carve"
    /\ UNCHANGED << target_group_size, sorted_departments, dept_students,
                    groups, remaining_blocks, dept_pos, remaining_queue,
                    current_group, available_space, error >>
    /\ ClusterUnchanged

\* while dept_size - students_assigned >= target_group_size: one full group.
\* With a negative target the loop does not end; the model stops it once
\* more than MaxGroups + 1 groups are emitted.
ClusterCarve ==
    /\ pc = "cl_carve"
    /\ LET students == dept_students[sorted_departments[dept_pos]]
       IN  /\ Len(students) - students_assigned >= target_group_size
           /\ Len(groups) <= MaxGroups + 1
           /\ groups' = Append(groups,
                               CarvedGroup(students, students_assigned,
                                           target_group_size))
    /\ students_assigned' = students_assigned + target_group_size
    /\ UNCHANGED << target_group_size, sorted_departments, dept_students,
                    remaining_blocks, dept_pos, remaining_queue,
                    current_group, available_space, error, pc >>
    /\ ClusterUnchanged

\* if students_assigned < dept_size: the rest of the department is a block.
ClusterStoreBlock ==
    /\ pc = "cl_carve"
    /\ LET students == dept_students[sorted_departments[dept_pos]]
       IN  /\ Len(students) - students_assigned < target_group_size
           /\ remaining_blocks' =
                IF students_assigned < Len(students)
                THEN Append(remaining_blocks,
                            PySlice(students, students_assigned, Len(students)))
                ELSE remaining_blocks
    /\ dept_pos' = dept_pos + 1
    /\ pc' = "cl_dept"
    /\ UNCHANGED << target_group_size, sorted_departments, dept_students,
                    groups, students_assigned, remaining_queue,
                    current_group, available_space, error >>
    /\ ClusterUnchanged

\* remaining_blocks.sort(key=len, reverse=True); deque(remaining_blocks)
ClusterSortBlocks ==
    /\ pc = "cl_dept"
    /\ dept_pos > Len(sorted_departments)
    /\ remaining_blocks' = SortBlocks(remaining_blocks)
    /\ remaining_queue' = SortBlocks(remaining_blocks)
    /\ pc' = "cl_queue"
    /\ UNCHANGED << target_group_size, sorted_departments, dept_students,
                    groups, students_assigned, dept_pos, current_group,
                    available_space, error >>
    /\ ClusterUnchanged

\* while remaining_queue: current_group = list(remaining_queue.popleft())
ClusterStartGroup ==
    /\ pc = "cl_queue"
    /\ remaining_queue # << >>
    /\ current_group' = Head(remaining_queue)
    /\ remaining_queue' = PopLeft(remaining_queue)
    /\ available_space' = target_group_size - Len(Head(remaining_queue))
    /\ pc' = "cl_fill"
    /\ UNCHANGED << target_group_size, sorted_departments, dept_students,
                    groups, students_assigned, dept_pos, remaining_blocks,
                    error >>
    /\ ClusterUnchanged

\* The next block fits: add it whole.
ClusterAddBlock ==
    /\ pc = "cl_fill"
    /\ available_space > 0
    /\ remaining_queue # << >>
    /\ LET next_block == Head(remaining_queue)
       IN  /\ Len(next_block) <= available_space
           /\ current_group' = current_group \o next_block
           /\ available_space' = available_space - Len(next_block)
    /\ remaining_queue' = PopLeft(remaining_queue)
    /\ UNCHANGED << target_group_size, sorted_departments, dept_students,
                    groups, students_assigned, dept_pos, remaining_blocks,
                    error, pc >>
    /\ ClusterUnchanged

\* The next block does not fit: take what fits, return the remainder to the
\* front of the queue.
ClusterSplitBlock ==
    /\ pc = "cl_fill"
    /\ available_space > 0
    /\ remaining_queue # << >>
    /\ LET next_block == Head(remaining_queue)
       IN  /\ Len(next_block) > available_space
           /\ current_group' = current_group \o FittingPortion(next_block, available_space)
           /\ remaining_queue' =
                PushFront(PopLeft(remaining_queue),
                          RemainingPortion(next_block, available_space))
    /\ available_space' = 0
    /\ UNCHANGED << target_group_size, sorted_departments, dept_students,
                    groups, students_assigned, dept_pos, remaining_blocks,
                    error, pc >>
    /\ ClusterUnchanged

\* groups.append(current_group)
ClusterCloseGroup ==
    /\ pc = "cl_fill"
    /\ ~(available_space > 0 /\ remaining_queue # << >>)
    /\ groups' = Append(groups, current_group)
    /\ pc' = "cl_queue"
    /\ UNCHANGED << target_group_size, sorted_departments, dept_students,
                    students_assigned, dept_pos, remaining_blocks,
                    remaining_queue, current_group, available_space, error >>
    /\ ClusterUnchanged

\* The count check and the padding with empty groups.
ClusterFinish ==
    /\ pc = "cl_queue"
    /\ remaining_queue = << >>
    /\ IF Len(groups) > num_groups
       THEN /\ error' = "ValueError"
            /\ pc' = "error"
            /\ groups' = groups
       ELSE /\ groups' = PadGroups(groups, num_groups)
            /\ pc' = "done"
            /\ error' = error
    /\ UNCHANGED << target_group_size, sorted_departments, dept_students,
                    students_assigned, dept_pos, remaining_blocks,
                    remaining_queue, current_group, available_space >>
    /\ ClusterUnchanged

----------------------------------------------------------------------------
(* GroupStatisticsGenerator *)

\* The order of Python's str comparison on upper-case strings.
RECURSIVE StrLess(_, _)
StrLess(a, b) ==
    IF a = << >> THEN b # << >>
    ELSE IF b = << >> THEN FALSE
    ELSE IF Ord(Head(a)) # Ord(Head(b)) THEN Ord(Head(a)) < Ord(Head(b))
    ELSE StrLess(Tail(a), Tail(b))

\* sorted(list(all_departments))
RECURSIVE SortedStrings(_)
SortedStrings(S) ==
    IF S = {} THEN << >>
    ELSE LET least == CHOOSE x \in S : \A y \in S \ {x} : StrLess(x, y)
         IN  << least >> \o SortedStrings(S \ {least})

AllDepartments(gs) ==
    UNION { { gs[g][k].department : k \in 1..Len(gs[g]) } : g \in 1..Len(gs) }

\* Faulty variant: every record of the group is counted for every department.
DeptCountIn_any(group, dept) == Len(group)

\* dept_counts[dept] of one group.
DeptCountIn(group, dept) ==
    Cardinality({ k \in 1..Len(group) : group[k].department = dept })

\* The row of one group; the row of an empty group keeps its zeros.
StatisticsRow(gs, idx, depts) ==
    IF idx <= Len(gs) /\ gs[idx] # << >>
    THEN [Group_ID |-> idx,
          counts |-> [dept \in depts |-> DeptCountIn(gs[idx], dept)],
          Total_Students |-> Len(gs[idx])]
    ELSE [Group_ID |-> idx,
          counts |-> [dept \in depts |-> 0],
          Total_Students |-> 0]

\* generate_statistics
StatisticsTable(gs, total_groups) ==
    [departments |-> SortedStrings(AllDepartments(gs)),
     rows |-> [idx \in 1..total_groups |->
                  StatisticsRow(gs, idx, AllDepartments(gs))]]

\* GroupStatisticsGenerator(groups, num_groups).generate_statistics()
GenerateStatistics ==
    /\ pc = "done"
    /\ stats' = StatisticsTable(groups, num_groups)
    /\ pc' = "reported"
    /\ UNCHANGED << raw_data, num_groups, student_data, strategy,
                    department_queues, ordered_departments, group_targets,
                    groups, group_idx, dept_pos, assigned_in_round,
                    target_group_size, sorted_departments, dept_students,
                    students_assigned, remaining_blocks, remaining_queue,
                    current_group, available_space, error >>

----------------------------------------------------------------------------
(* Specifications *)

Next ==
    \/ ProcessStudentData
    \/ BalancedConstruct
    \/ BalancedCreateGroups
    \/ BalancedNextGroup
    \/ BalancedWhile
    \/ BalancedRoundEnd
    \/ BalancedBreakFull
    \/ BalancedPop
    \/ BalancedSkipEmpty
    \/ ClusterConstruct
    \/ ClusterCreateGroups
    \/ ClusterNextDept
    \/ ClusterCarve
    \/ ClusterStoreBlock
    \/ ClusterSortBlocks
    \/ ClusterStartGroup
    \/ ClusterAddBlock
    \/ ClusterSplitBlock
    \/ ClusterCloseGroup
    \/ ClusterFinish
    \/ GenerateStatistics

\* Rosters of up to MaxLen students, any group count.
Spec == Init /\ [][Next]_vars

\* One-student rosters over every identifier, through process_student_data.
SpecExtract == InitExtract /\ [][ProcessStudentData]_vars

----------------------------------------------------------------------------
(* Vocabulary of the properties *)

\* create_groups has returned a partition.
Returned == pc \in { "done", "reported" }

ValidN == num_groups >= 1

\* The record of roster row i, from the uploaded column itself.
RosterRecord(i) ==
    [row |-> i, roll_number |-> raw_data[i],
     department |-> student_data[i].Department]

\* The places <<group, index>> of the partition.
Positions == UNION { { << g, k >> : k \in 1..Len(groups[g]) } : g \in 1..Len(groups) }

Occurrences(rec) == Cardinality({ p \in Positions : groups[p[1]][p[2]] = rec })

RosterCount(dept) ==
    Cardinality({ i \in 1..Len(student_data) : student_data[i].Department = dept })

CountIn(group, dept) ==
    Cardinality({ k \in 1..Len(group) : group[k].department = dept })

DepartmentsIn(group) == { group[k].department : k \in 1..Len(group) }

RECURSIVE SumOver(_, _)
SumOver(S, f) ==
    IF S = {} THEN 0
    ELSE LET x == CHOOSE y \in S : TRUE
         IN  f[x] + SumOver(S \ {x}, f)

\* The CategoryIndexer order: catalog departments first, in catalog order,
\* then the others in order of first appearance in the roster.
CatalogPos(dept) == CHOOSE i \in 1..Len(branch_priority) : branch_priority[i] = dept

FirstSeen(dept) ==
    CHOOSE i \in 1..Len(student_data) :
        /\ student_data[i].Department = dept
        /\ \A j \in 1..(i - 1) : student_data[j].Department # dept

IndexerBefore(c, d) ==
    IF c \in Range(branch_priority) /\ d \in Range(branch_priority)
    THEN CatalogPos(c) < CatalogPos(d)
    ELSE IF c \in Range(branch_priority) THEN TRUE
    ELSE IF d \in Range(branch_priority) THEN FALSE
    ELSE FirstSeen(c) < FirstSeen(d)

----------------------------------------------------------------------------
(* Properties *)

\* C1 (conservation): once either strategy has returned for a group count
\* N >= 1, every roster record occurs in exactly one place of the partition
\* and the partition holds nothing else.
C1_Conservation ==
    (Returned /\ ValidN) =>
        /\ \A i \in 1..Len(student_data) : Occurrences(RosterRecord(i)) = 1
        /\ Cardinality(Positions) = Len(student_data)

\* A clustering run of five students in two groups, the first one mixed.
C1_Witness ==
    /\ pc = "done"
    /\ strategy = "cluster"
    /\ num_groups = 2
    /\ Len(student_data) = 5
    /\ Cardinality(DepartmentsIn(groups[1])) >= 2

\* C2 (count): once either strategy has returned for N >= 1, the partition
\* has exactly N groups, and all of them are empty when the roster is empty.
C2_Count ==
    (Returned /\ ValidN) =>
        /\ Len(groups) = num_groups
        /\ student_data = << >> => \A g \in 1..Len(groups) : groups[g] = << >>

\* The clustering strategy returned three empty groups for the empty roster.
C2_Witness ==
    /\ pc = "done"
    /\ strategy = "cluster"
    /\ student_data = << >>
    /\ num_groups = 3
    /\ groups = << << >>, << >>, << >> >>

\* C3 (balance): the sizes of the groups the balanced strategy returns for
\* N >= 1 differ by at most 1.
C3_Balance ==
    (Returned /\ ValidN /\ strategy = "balanced") =>
        \A g, h \in 1..Len(groups) : Len(groups[g]) - Len(groups[h]) <= 1

\* Five students in three balanced groups: sizes 2, 2, 1.
C3_Witness ==
    /\ pc = "done"
    /\ strategy = "balanced"
    /\ num_groups = 3
    /\ Len(student_data) = 5
    /\ Len(groups[1]) = 2
    /\ Len(groups[2]) = 2
    /\ Len(groups[3]) = 1

\* C4 (capacity): for N >= 1 no group of the clustering strategy, emitted in
\* Step 1 or Step 2 or still being merged, holds more than ceil(total / N)
\* records: a group of L >= 1 records has (L - 1) * N < total.
C4_Capacity ==
    (ValidN /\ strategy = "cluster") =>
        /\ \A g \in 1..Len(groups) :
             Len(groups[g]) = 0
             \/ (Len(groups[g]) - 1) * num_groups < Len(student_data)
        /\ Len(current_group) = 0
           \/ (Len(current_group) - 1) * num_groups < Len(student_data)

\* Five students, two groups: the first group is full and mixed and ends
\* with the front part of a split block, whose rest opens the second group.
C4_Witness ==
    /\ pc = "done"
    /\ strategy = "cluster"
    /\ num_groups = 2
    /\ Len(student_data) = 5
    /\ Len(groups[1]) = 3
    /\ Len(groups[2]) = 2
    /\ Cardinality(DepartmentsIn(groups[1])) = 2
    /\ groups[1][3].department = groups[2][1].department
    /\ groups[1][3].row < groups[2][1].row

\* C5 (statistics consistency): in the table built from a returned partition
\* (N >= 1), the department cells of every row add up to the row's total,
\* which is the size of the group, and every department column adds up to
\* the number of roster records of that department.
C5_StatisticsConsistency ==
    (pc = "reported" /\ ValidN) =>
        LET columns == Range(stats.departments)
        IN  /\ DOMAIN stats.rows = 1..num_groups
            /\ \A g \in DOMAIN stats.rows :
                 /\ SumOver(columns, stats.rows[g].counts) = stats.rows[g].Total_Students
                 /\ stats.rows[g].Total_Students = Len(groups[g])
            /\ \A dept \in columns :
                 SumOver(DOMAIN stats.rows,
                         [g \in DOMAIN stats.rows |-> stats.rows[g].counts[dept]])
                   = RosterCount(dept)

\* A table of two rows and three department columns, one row with two
\* departments in it.
C5_Witness ==
    /\ pc = "reported"
    /\ num_groups = 2
    /\ Len(stats.departments) = 3
    /\ \E g \in DOMAIN stats.rows :
         \E c, d \in Range(stats.departments) :
            c # d /\ stats.rows[g].counts[c] > 0 /\ stats.rows[g].counts[d] > 0

\* C6 (validation of N), as claimed: a run with N < 1 does not get past the
\* construction of the strategy other than by a validation error; it neither
\* enters the allocation nor fails in its arithmetic.
C6_RejectedByValidation ==
    num_groups < 1 =>
        \/ pc \in { "upload", "ready", "bal_created", "cl_created" }
        \/ (pc = "error" /\ error = "InvalidGroupCount")

\* The first index of an upper-case pair of the text, the way the claim and
\* its amendment count runs.
UpperPairs(t) == { i \in 1..(Len(t) - 1) : t[i] \in UpperCase /\ t[i + 1] \in UpperCase }

ExactRuns(t) ==
    { i \in UpperPairs(t) :
        /\ (i = 1 \/ t[i - 1] \notin UpperCase)
        /\ (i + 2 > Len(t) \/ t[i + 2] \notin UpperCase) }

Least(S) == CHOOSE i \in S : \A j \in S : i <= j

CodeAt(cell, starts) ==
    IF cell.isna \/ starts = {} THEN UNKNOWN
    ELSE SubSeq(cell.text, Least(starts), Least(starts) + 1)

\* C7 (category extraction), amended: the department of a row is the leftmost
\* pair of adjacent upper-case letters of its identifier, also when the pair
\* starts a longer run, and UNKNOWN when the identifier is null, empty or
\* has no such pair.
C7_FirstUppercasePair ==
    pc # "upload" =>
        \A i \in 1..Len(raw_data) :
            student_data[i].Department = CodeAt(raw_data[i], UpperPairs(raw_data[i].text))

\* An identifier whose only run of upper-case letters has three of them.
C7_Witness ==
    /\ pc = "ready"
    /\ raw_data = << Cell(<< "1", "A", "I", "A" >>) >>
    /\ student_data[1].Department = << "A", "I" >>

\* C7 as claimed: the department is the first run of exactly two upper-case
\* letters, and UNKNOWN when there is no such run.
C7_ExactlyTwoRun ==
    pc # "upload" =>
        \A i \in 1..Len(raw_data) :
            student_data[i].Department = CodeAt(raw_data[i], ExactRuns(raw_data[i].text))

\* C8 (clustering order), as claimed: the departments are processed by
\* descending population, departments of equal population in the
\* CategoryIndexer order.
C8_PopulationThenIndexerOrder ==
    (strategy = "cluster" /\ ValidN) =>
        \A i, j \in 1..Len(sorted_departments) :
            i < j =>
                LET c == sorted_departments[i]
                    d == sorted_departments[j]
                IN  \/ RosterCount(c) > RosterCount(d)
                    \/ (RosterCount(c) = RosterCount(d) /\ IndexerBefore(c, d))

\* C9 (round-robin FIFO): in the partition the balanced strategy returns for
\* N >= 1, of two records of one department the one earlier in the roster
\* is in an earlier group, or earlier in the same group.
C9_FifoOrder ==
    (Returned /\ ValidN /\ strategy = "balanced") =>
        \A p, q \in Positions :
            LET r == groups[p[1]][p[2]]
                s == groups[q[1]][q[2]]
            IN  (r.department = s.department /\ r.row < s.row) =>
                    (p[1] < q[1] \/ (p[1] = q[1] /\ p[2] < q[2]))

\* Two students of each of two departments in two groups: the first of each
\* department in group 1, the second in group 2.
C9_Witness ==
    /\ pc = "done"
    /\ strategy = "balanced"
    /\ num_groups = 2
    /\ raw_data = << Cell(<< "1", "A", "I" >>), Cell(<< "1", "A", "I" >>),
                     Cell(<< "X", "Y", "1" >>), Cell(<< "X", "Y", "1" >>) >>
    /\ groups[1][1].row = 1
    /\ groups[1][2].row = 3
    /\ groups[2][1].row = 2
    /\ groups[2][2].row = 4

\* C10 (round-robin interleaving): when the balanced strategy has filled a
\* group (N >= 1), for any two departments c before d in the CategoryIndexer
\* order whose queues both still hold records, the group has as many records
\* of c as of d, or one more.
C10_Interleaving ==
    (pc = "bal_group" /\ group_idx > 1 /\ ValidN) =>
        \A c, d \in DOMAIN department_queues :
            (/\ IndexerBefore(c, d)
             /\ department_queues[c] # << >>
             /\ department_queues[d] # << >>) =>
                CountIn(groups[group_idx - 1], c) - CountIn(groups[group_idx - 1], d)
                    \in { 0, 1 }

\* A filled group holding one record more of an earlier department than of
\* a later one, both with records left.
C10_Witness ==
    /\ pc = "bal_group"
    /\ group_idx > 1
    /\ ValidN
    /\ \E c, d \in DOMAIN department_queues :
         /\ c # d
         /\ IndexerBefore(c, d)
         /\ department_queues[c] # << >>
         /\ department_queues[d] # << >>
         /\ CountIn(groups[group_idx - 1], c) = CountIn(groups[group_idx - 1], d) + 1

\* The capacity ceil(total / N), as the least c with c * N >= total.
Capacity ==
    CHOOSE c \in 0..Len(student_data) :
        /\ c * num_groups >= Len(student_data)
        /\ \A b \in 0..(c - 1) : b * num_groups < Len(student_data)

\* The roster rows of a department, in roster order.
RECURSIVE RowsOfDept(_, _)
RowsOfDept(dept, n) ==
    IF n = 0 THEN << >>
    ELSE IF student_data[n].Department = dept
         THEN Append(RowsOfDept(dept, n - 1), n)
         ELSE RowsOfDept(dept, n - 1)

\* The k-th run of size records of a department's roster-ordered records.
RunOfDept(dept, k, size) ==
    LET rows == RowsOfDept(dept, Len(student_data))
    IN  [j \in 1..size |-> RosterRecord(rows[(k - 1) * size + j])]

\* The place of a roster row in its department's roster-ordered records.
RankInDept(i) ==
    Cardinality({ j \in 1..i : student_data[j].Department = student_data[i].Department })

\* C11 (clustering, Step 1): in the partition the clustering strategy returns
\* for N >= 1 with capacity = ceil(total / N) > 0, every department c of n_c
\* records has its first floor(n_c / capacity) runs of capacity consecutive
\* records each as a group of its own, and a record of c in a mixed group is
\* one of the last n_c mod capacity of c.
C11_HomogeneousChunks ==
    (Returned /\ ValidN /\ strategy = "cluster" /\ Capacity > 0) =>
        /\ \A dept \in Range(DepartmentColumn(student_data)) :
             \A k \in 1..(RosterCount(dept) \div Capacity) :
                \E g \in 1..Len(groups) : groups[g] = RunOfDept(dept, k, Capacity)
        /\ \A p \in Positions :
             Cardinality(DepartmentsIn(groups[p[1]])) > 1 =>
                LET r == groups[p[1]][p[2]]
                IN  RankInDept(r.row)
                      > (RosterCount(r.department) \div Capacity) * Capacity

\* Three students of one department and two of another in three groups of
\* capacity 2: a full group of each department, and the third student alone.
C11_Witness ==
    /\ pc = "done"
    /\ strategy = "cluster"
    /\ num_groups = 3
    /\ Len(student_data) = 5
    /\ Len(groups[1]) = 2
    /\ Len(groups[2]) = 2
    /\ Cardinality(DepartmentsIn(groups[1])) = 1
    /\ Cardinality(DepartmentsIn(groups[2])) = 1
    /\ DepartmentsIn(groups[1]) # DepartmentsIn(groups[2])
    /\ Len(groups[3]) = 1
    /\ DepartmentsIn(groups[3]) = DepartmentsIn(groups[1])

\* The next leftover block is larger than the space left in the group
\* being built.
BlockTooLarge ==
    /\ strategy = "cluster"
    /\ ValidN
    /\ pc = "cl_fill"
    /\ available_space > 0
    /\ remaining_queue # << >>
    /\ Len(Head(remaining_queue)) > available_space

\* The group being built has just taken the front part of a split block,
\* whose rest heads the queue.
JustSplit ==
    /\ strategy = "cluster"
    /\ ValidN
    /\ pc = "cl_fill"
    /\ available_space = 0
    /\ remaining_queue # << >>
    /\ current_group # << >>
    /\ LET last == current_group[Len(current_group)]
           first == Head(remaining_queue)[1]
       IN  /\ last.department = first.department
           /\ RankInDept(first.row) = RankInDept(last.row) + 1

\* C12 (clustering, Step 2, split and requeue): a step taken when the next
\* leftover block is larger than the space left gives the group exactly the
\* front part of the block that fills it to capacity and puts the rest of
\* the block at the front of the queue, before the blocks still waiting; the
\* step after it closes the group as it is, the queue untouched; and the
\* group started next is the block at the front of the queue, the rest of
\* the split block.
C12_SplitAndRequeue ==
    [][ /\ BlockTooLarge =>
             LET next_block == Head(remaining_queue)
             IN  /\ current_group' =
                      current_group \o SubSeq(next_block, 1, available_space)
                 /\ Len(current_group') = Capacity
                 /\ remaining_queue' =
                      << SubSeq(next_block, available_space + 1, Len(next_block)) >>
                      \o Tail(remaining_queue)
                 /\ groups' = groups
        /\ JustSplit =>
             /\ groups' = Append(groups, current_group)
             /\ remaining_queue' = remaining_queue
             /\ pc' = "cl_queue"
        /\ (strategy = "cluster" /\ ValidN /\ pc = "cl_queue"
              /\ remaining_queue # << >>) =>
             /\ current_group' = Head(remaining_queue)
             /\ remaining_queue' = Tail(remaining_queue)
             /\ groups' = groups
      ]_vars

\* A block has just been split with other blocks waiting behind its rest.
C12_Witness ==
    /\ JustSplit
    /\ Len(remaining_queue) >= 2
    /\ Len(current_group) = Capacity
    /\ Cardinality(DepartmentsIn(current_group)) >= 2

\* C13 (no overflow): for N >= 1 the clustering strategy never raises; while
\* it emits groups (before the padding) every emitted group but the last
\* holds exactly ceil(total / N) records, and at no time are there more than
\* N groups.
C13_NoOverflow ==
    (strategy = "cluster" /\ ValidN) =>
        /\ pc # "error"
        /\ error = "none"
        /\ Len(groups) <= num_groups
        /\ pc \in { "cl_dept", "cl_carve", "cl_queue", "cl_fill" } =>
             \A g \in 1..(Len(groups) - 1) : Len(groups[g]) = Capacity

\* Three students in two groups of capacity 2: the count check passes with
\* exactly N groups emitted, the last one short, and nothing to pad.
C13_Witness ==
    /\ pc = "done"
    /\ strategy = "cluster"
    /\ num_groups = 2
    /\ Len(student_data) = 3
    /\ Len(groups[1]) = 2
    /\ Len(groups[2]) = 1

====
